---- MODULE Spec2Model ----
(***************************************************************************)
(* Ledger-balance aggregation and debt settlement of the expense sharing   *)
(* application: the expense forms that store expenses and splits, the      *)
(* pairwise balance builder (expenseService.getGroupBalances), the netter  *)
(* (simplifyBalances), the greedy settlement planner                       *)
(* (calculateMinCashFlow), the Balances tab of GroupDetail and             *)
(* groupService.createGroup.                                               *)
(*                                                                         *)
(* Money is an integer number of units; Cent units make up 0.01 of the     *)
(* currency, so the code's literal 0.01 is Cent and Math.round(x*100)/100  *)
(* rounds to the nearest multiple of Cent (halves towards +infinity).      *)
(***************************************************************************)
EXTENDS Integers, Sequences, FiniteSets, TLC

\* ------------------------------------------------------------------------
\* Bounds of the model
\* ------------------------------------------------------------------------
Cent == 2            \* units per 0.01 of the currency (resolution of the model)
MaxBalances == 3     \* longest balance list handed to calculateMinCashFlow
MaxNet == 6          \* largest |net_amount| of an input balance, in units
MaxZeroSum == 5      \* longest balance list of the zero-sum specification
MaxCoarse == 4       \* largest |net_amount| of its coarse lists, in grid steps

MaxGroup == 4        \* most members of the group the forms submit to
MaxSubmitted == 1    \* most expenses the forms store
MaxLedgerGroup == 2  \* most members of a group whose balances are computed
MaxExpenses == 2     \* most stored expenses whose balances are computed
MaxShare == 1        \* largest stored share of such an expense, in multiples of 0.01
MaxAmountCents == 2  \* largest amount typed into a form, in multiples of 0.01
MaxShareCents == 1   \* largest custom share typed, in multiples of 0.01
MaxReceiptRupees == 11  \* largest amount read from a receipt, in whole rupees

\* Math.floor(Math.random() * 4990) + 10 : the smallest receipt amount
MinReceiptRupees == 10

UserOrder == <<"A", "B", "C", "D", "E", "F">>

\* A first word of "<name> paid ..." that extractPayer returns as the payer.
ParsedPayerName == "Rahul"

VARIABLES
    members,          \* user_ids returned by getGroupMembers, in order
    user,             \* the signed-in user
    expenses,         \* stored expenses, in creation order (id = position)
    splits,           \* stored splits of each expense, in document order
    receipts,         \* stored receipt records
    activities,       \* activity log entries ('expense_added')
    error,            \* the error state of the form last submitted
    userBalances,     \* rows returned by getGroupBalances
    builder,          \* getGroupBalances run split by split: its balanceMap, the
                      \* expense and split it has reached, and the shares seen
    groups,           \* stored group documents / rows, in creation order
    groupMembers,     \* stored memberships [group_id, user_id]
    created,          \* outcome of the last createGroup call
    balances,         \* a SimplifiedBalance[]: calculateMinCashFlow's argument,
                      \* or the balances state of GroupDetail
    nonZeroBalances,  \* calculateMinCashFlow: the active (spliced) array
    transactions,     \* calculateMinCashFlow: the DebtFlow list
    iterations,       \* calculateMinCashFlow: loop bodies entered so far
    origin,           \* calculateMinCashFlow: for each entry of nonZeroBalances,
                      \* the index of the caller's object it is, 0 for an
                      \* object made by the copy
    valid,            \* validateCashFlow: the value returned
    db,               \* Firestore: member documents, expenses and split
                      \* documents of one group
    tasks,            \* the asynchronous service calls in progress
    auth,             \* AuthContext: the stored profile, the context's user
                      \* and the positions of signUp and the auth handler
    pc                \* position of the computation

storeVars == <<members, user, expenses, splits, receipts, activities, error,
               groups, groupMembers, created>>

groupVars == <<groups, groupMembers, created>>

planVars == <<balances, nonZeroBalances, transactions, iterations>>

restVars == <<valid, db, tasks, auth>>

extVars == <<origin, restVars>>

vars == <<members, user, expenses, splits, receipts, activities, error,
          groups, groupMembers, created, userBalances, builder,
          balances, nonZeroBalances, transactions, iterations, pc,
          origin, valid, db, tasks, auth>>

\* getGroupBalances is not running.
BuilderIdle == [balanceMap |-> <<>>, owed |-> <<>>, paid_by |-> "", next |-> 0, read |-> 0]

\* ------------------------------------------------------------------------
\* Arithmetic of the source
\* ------------------------------------------------------------------------
Abs(x) == IF x < 0 THEN -x ELSE x

Min(x, y) == IF x <= y THEN x ELSE y

\* The 0.01 literal used in every comparison of the planner and the builder.
Tolerance == Cent

\* Math.round(x * 100) / 100 : nearest multiple of 0.01, ties towards +inf.
Round2(x) == Cent * ((2 * x + Cent) \div (2 * Cent))

RECURSIVE SumSeq(_)
SumSeq(s) == IF s = <<>> THEN 0 ELSE Head(s) + SumSeq(Tail(s))

\* Array.prototype.splice(i, 1), i counted from 1
Splice(s, i) == SubSeq(s, 1, i - 1) \o SubSeq(s, i + 1, Len(s))

\* findIndex(b => b.user_id === u): the first match, 0 standing for -1
FindIndex(s, u) ==
    IF \E i \in 1..Len(s) : s[i].user_id = u
    THEN CHOOSE i \in 1..Len(s) :
            s[i].user_id = u /\ \A j \in 1..(i - 1) : s[j].user_id # u
    ELSE 0

\* ------------------------------------------------------------------------
\* calculateMinCashFlow
\* ------------------------------------------------------------------------
\* The scan for the maximum creditor: i runs over the later entries and
\* replaces the candidate only on a strictly greater net_amount.
RECURSIVE ScanCreditor(_, _, _)
ScanCreditor(nz, i, maxCreditorIndex) ==
    IF i > Len(nz) THEN maxCreditorIndex
    ELSE ScanCreditor(nz, i + 1,
            IF nz[i].net_amount > nz[maxCreditorIndex].net_amount
            THEN i ELSE maxCreditorIndex)

\* Variant of the scan that also replaces the candidate on an equal
\* net_amount (>= for >): the last entry holding the maximum.
MaxCreditorIndexLastTie(nz) ==
    CHOOSE i \in 1..Len(nz) :
        /\ \A j \in 1..Len(nz) : nz[j].net_amount <= nz[i].net_amount
        /\ \A j \in (i + 1)..Len(nz) : nz[j].net_amount < nz[i].net_amount

MaxCreditorIndex(nz) == ScanCreditor(nz, 2, 1)

\* The scan for the maximum debtor: replaces only on a strictly smaller
\* net_amount.
RECURSIVE ScanDebtor(_, _, _)
ScanDebtor(nz, i, maxDebtorIndex) ==
    IF i > Len(nz) THEN maxDebtorIndex
    ELSE ScanDebtor(nz, i + 1,
            IF nz[i].net_amount < nz[maxDebtorIndex].net_amount
            THEN i ELSE maxDebtorIndex)

MaxDebtorIndex(nz) == ScanDebtor(nz, 2, 1)

\* Variant of the guard that joins its two tests with && instead of ||.
NoMeaningfulPairBothTests(nz) ==
    /\ nz[MaxCreditorIndex(nz)].net_amount <= Tolerance
    /\ nz[MaxDebtorIndex(nz)].net_amount >= -Tolerance

\* The guard of the defensive break.
NoMeaningfulPair(nz) ==
    \/ nz[MaxCreditorIndex(nz)].net_amount <= Tolerance
    \/ nz[MaxDebtorIndex(nz)].net_amount >= -Tolerance

\* Variant of the settlement amount that takes the larger of the two.
SettlementAmountLarger(nz) ==
    LET c == nz[MaxCreditorIndex(nz)].net_amount
        d == Abs(nz[MaxDebtorIndex(nz)].net_amount)
    IN  IF c > d THEN c ELSE d

\* Math.min(creditor.net_amount, Math.abs(debtor.net_amount))
SettlementAmount(nz) ==
    Min(nz[MaxCreditorIndex(nz)].net_amount, Abs(nz[MaxDebtorIndex(nz)].net_amount))

\* Variant of the update with the two signs exchanged.
UpdateBalancesSignsExchanged(nz) ==
    LET ci == MaxCreditorIndex(nz)
        di == MaxDebtorIndex(nz)
        amt == SettlementAmount(nz)
        afterC == [nz EXCEPT ![ci].net_amount = @ + amt]
    IN  [afterC EXCEPT ![di].net_amount = @ - amt]

\* creditor.net_amount -= settlementAmount; debtor.net_amount += settlementAmount
\* (creditor and debtor alias the entries of the array; when both indexes are
\* the same entry the two updates cancel).
UpdateBalances(nz) ==
    LET ci == MaxCreditorIndex(nz)
        di == MaxDebtorIndex(nz)
        amt == SettlementAmount(nz)
        afterC == [nz EXCEPT ![ci].net_amount = @ - amt]
    IN  [afterC EXCEPT ![di].net_amount = @ + amt]

\* The two removals at the end of the loop body.
RemoveSettled(nz) ==
    LET ci == MaxCreditorIndex(nz)
        di == MaxDebtorIndex(nz)
        upd == UpdateBalances(nz)
        creditorSettled == Abs(upd[ci].net_amount) <= Tolerance
        afterC == IF creditorSettled THEN Splice(upd, ci) ELSE upd
        debtorId == upd[di].user_id
        cur == FindIndex(afterC, debtorId)
    IN  IF Abs(upd[di].net_amount) <= Tolerance /\ Len(afterC) > 0 /\ cur # 0
        THEN Splice(afterC, cur)
        ELSE afterC

NewTransaction(nz) ==
    [from |-> nz[MaxDebtorIndex(nz)].user_id,
     to |-> nz[MaxCreditorIndex(nz)].user_id,
     amount |-> Round2(SettlementAmount(nz))]

\* balances.filter(balance => Math.abs(balance.net_amount) > 0.01)
RECURSIVE FilterNonZero(_)
FilterNonZero(bs) ==
    IF bs = <<>> THEN <<>>
    ELSE IF Abs(Head(bs).net_amount) > Tolerance
         THEN <<Head(bs)>> \o FilterNonZero(Tail(bs))
         ELSE FilterNonZero(Tail(bs))

\* The value of a balances argument that was not passed.
Undefined == [i \in {0} |-> "undefined"]

\* Variant of the first test that only looks at the length.
IsMissingOrEmptyLengthOnly(bs) == bs # Undefined /\ Len(bs) = 0

\* !balances || balances.length === 0
IsMissingOrEmpty(bs) == bs = Undefined \/ Len(bs) = 0

\* Variant of the copy that makes a new array of the caller's own objects.
CopiedObjectsShared(bs) == [i \in 1..Len(bs) |-> i]

\* balances.map(balance => ({...balance, net_amount: Number(...)})): every
\* entry of netBalances is a new object, none is an object of the caller.
CopiedObjects(bs) == [i \in 1..Len(bs) |-> 0]

\* The objects kept by the filter, in the order of netBalances.
RECURSIVE FilterOrigin(_, _)
FilterOrigin(bs, os) ==
    IF bs = <<>> THEN <<>>
    ELSE IF Abs(Head(bs).net_amount) > Tolerance
         THEN <<Head(os)>> \o FilterOrigin(Tail(bs), Tail(os))
         ELSE FilterOrigin(Tail(bs), Tail(os))

\* The two updates as the caller's array sees them: an update of an object
\* of the caller changes the caller's entry, an update of a copy does not.
WriteThrough(bs, nz, os) ==
    LET ci == MaxCreditorIndex(nz)
        di == MaxDebtorIndex(nz)
        upd == UpdateBalances(nz)
        afterC == IF os[ci] = 0 THEN bs
                  ELSE [bs EXCEPT ![os[ci]].net_amount = upd[ci].net_amount]
    IN  IF os[di] = 0 THEN afterC
        ELSE [afterC EXCEPT ![os[di]].net_amount = upd[di].net_amount]

\* The objects left in nonZeroBalances by the two removals.
RemoveSettledOrigin(nz, os) ==
    LET ci == MaxCreditorIndex(nz)
        di == MaxDebtorIndex(nz)
        upd == UpdateBalances(nz)
        creditorSettled == Abs(upd[ci].net_amount) <= Tolerance
        afterC == IF creditorSettled THEN Splice(upd, ci) ELSE upd
        osC == IF creditorSettled THEN Splice(os, ci) ELSE os
        cur == FindIndex(afterC, upd[di].user_id)
    IN  IF Abs(upd[di].net_amount) <= Tolerance /\ Len(afterC) > 0 /\ cur # 0
        THEN Splice(osC, cur)
        ELSE osC

\* Lines 215-226: the first early return, the copy (balances.map, a TypeError
\* on a value that is not an array), the filter and the second early return.
CalcStart ==
    /\ pc = "start"
    /\ IF IsMissingOrEmpty(balances)
       THEN /\ nonZeroBalances' = <<>>
            /\ origin' = <<>>
            /\ pc' = "done"
       ELSE IF balances = Undefined
       THEN /\ nonZeroBalances' = <<>>
            /\ origin' = <<>>
            /\ pc' = "threw"
       ELSE LET nz == FilterNonZero(balances)
            IN  /\ nonZeroBalances' = nz
                /\ origin' = FilterOrigin(balances, CopiedObjects(balances))
                /\ pc' = IF Len(nz) = 0 THEN "done" ELSE "loop"
    /\ transactions' = <<>>
    /\ iterations' = 0
    /\ UNCHANGED <<restVars, balances, userBalances, builder, storeVars>>

\* One pass of the while body that reaches its end.
CalcIterate ==
    /\ pc = "loop"
    /\ Len(nonZeroBalances) > 1
    /\ ~NoMeaningfulPair(nonZeroBalances)
    /\ transactions' = Append(transactions, NewTransaction(nonZeroBalances))
    /\ nonZeroBalances' = RemoveSettled(nonZeroBalances)
    /\ balances' = WriteThrough(balances, nonZeroBalances, origin)
    /\ origin' = RemoveSettledOrigin(nonZeroBalances, origin)
    /\ iterations' = iterations + 1
    /\ UNCHANGED <<restVars, pc, userBalances, builder, storeVars>>

\* A pass of the while body that leaves through the break.
CalcBreak ==
    /\ pc = "loop"
    /\ Len(nonZeroBalances) > 1
    /\ NoMeaningfulPair(nonZeroBalances)
    /\ iterations' = iterations + 1
    /\ pc' = "done"
    /\ UNCHANGED <<extVars, balances, nonZeroBalances, transactions, userBalances, builder, storeVars>>

\* The loop condition fails and the function returns.
CalcReturn ==
    /\ pc = "loop"
    /\ Len(nonZeroBalances) <= 1
    /\ pc' = "done"
    /\ UNCHANGED <<extVars, balances, nonZeroBalances, transactions, iterations, userBalances, builder, storeVars>>

\* ------------------------------------------------------------------------
\* Inputs of the planner
\* ------------------------------------------------------------------------
\* No computation of the later sections is running.
NoStore == [members |-> {}, expenses |-> {}, splitDocs |-> {}, group |-> FALSE]

NoAuth == [signUp |-> "none", handler |-> "idle"]

InitExt ==
    /\ origin = <<>>
    /\ valid = FALSE
    /\ db = NoStore
    /\ tasks = [submit |-> "none"]
    /\ auth = NoAuth

\* A balance list of n entries with distinct user_ids, in input order.
BalanceLists(n, amounts) ==
    { [i \in 1..n |-> [user_id |-> UserOrder[i], net_amount |-> f[i]]] :
        f \in [1..n -> amounts] }

NetTotal(bs) == SumSeq([i \in 1..Len(bs) |-> bs[i].net_amount])

InitPlanner ==
    /\ \E n \in 0..MaxBalances : balances \in BalanceLists(n, (-MaxNet)..MaxNet)
    /\ members = <<>>
    /\ user = UserOrder[1]
    /\ expenses = <<>>
    /\ splits = <<>>
    /\ receipts = <<>>
    /\ activities = <<>>
    /\ error = ""
    /\ groups = <<>>
    /\ groupMembers = {}
    /\ created = [status |-> "none", id |-> 0]
    /\ InitExt
    /\ userBalances = <<>>
    /\ builder = BuilderIdle
    /\ nonZeroBalances = <<>>
    /\ transactions = <<>>
    /\ iterations = 0
    /\ pc = "start"

NextPlanner == CalcStart \/ CalcIterate \/ CalcBreak \/ CalcReturn

SpecPlanner == InitPlanner /\ [][NextPlanner]_vars

\* Zero-sum balance lists over a set of amounts: the last entry balances
\* the others.
ZeroSumLists(n, amounts) ==
    IF n = 0 THEN {<<>>}
    ELSE { [i \in 1..n |-> [user_id |-> UserOrder[i],
                            net_amount |-> IF i < n THEN f[i]
                                           ELSE -SumSeq([j \in 1..(n - 1) |-> f[j]])]] :
             f \in { g \in [1..(n - 1) -> amounts] :
                       -SumSeq([j \in 1..(n - 1) |-> g[j]]) \in amounts } }

\* Amounts of any resolution up to MaxNet, and larger amounts on a grid
\* whose step is the smallest amount above the tolerance.
FineAmounts == (-MaxNet)..MaxNet

CoarseAmounts == { k * (Tolerance + 1) : k \in (-MaxCoarse)..MaxCoarse }

InitZeroSum ==
    /\ \E n \in 0..MaxZeroSum :
          balances \in ZeroSumLists(n, FineAmounts) \cup ZeroSumLists(n, CoarseAmounts)
    /\ members = <<>>
    /\ user = UserOrder[1]
    /\ expenses = <<>>
    /\ splits = <<>>
    /\ receipts = <<>>
    /\ activities = <<>>
    /\ error = ""
    /\ groups = <<>>
    /\ groupMembers = {}
    /\ created = [status |-> "none", id |-> 0]
    /\ InitExt
    /\ userBalances = <<>>
    /\ builder = BuilderIdle
    /\ nonZeroBalances = <<>>
    /\ transactions = <<>>
    /\ iterations = 0
    /\ pc = "start"

SpecZeroSum == InitZeroSum /\ [][NextPlanner]_vars

\* ------------------------------------------------------------------------
\* Expense store and expense forms
\* ------------------------------------------------------------------------
\* Amounts a form can carry: the inputs step by 0.01 and the text parser
\* accepts at most two decimals.
AmountInputs == { c * Cent : c \in 0..MaxAmountCents }

CustomShareInputs == { c * Cent : c \in (-1)..MaxShareCents }

ReceiptAmounts == { r * 100 * Cent : r \in MinReceiptRupees..MaxReceiptRupees }

\* Math.round((amountNum / members.length) * 100) / 100
EqualShare(amount, n) == Cent * ((2 * amount + Cent * n) \div (2 * Cent * n))

\* members.map(m => ({expense_id, user_id: m.user_id, share_amount: rounded}))
EqualSplits(amount) ==
    [i \in 1..Len(members) |->
        [user_id |-> members[i], share_amount |-> EqualShare(amount, Len(members))]]

\* Object.entries(customSplits).map(...): one split per member, as typed.
CustomSplits(customSplits) ==
    [i \in 1..Len(members) |->
        [user_id |-> members[i], share_amount |-> customSplits[members[i]]]]

\* Object.values(customSplits).reduce((sum, val) => sum + parseFloat(val), 0)
TotalCustom(customSplits) ==
    SumSeq([i \in 1..Len(members) |-> customSplits[members[i]]])

SumShares(ss) == SumSeq([i \in 1..Len(ss) |-> ss[i].share_amount])

\* expenseService.createExpense: one expense document, no split yet.
CreatedExpense(paidBy, amount, method) ==
    [id |-> Len(expenses) + 1, paid_by |-> paidBy, amount |-> amount,
     input_method |-> method]

\* ManualExpenseForm.handleSubmit
ManualSubmit(paidBy, amount, splitType, customSplits) ==
    /\ Len(expenses) < MaxSubmitted
    /\ IF amount <= 0
       THEN /\ error' = "Please enter a valid amount"
            /\ UNCHANGED <<expenses, splits, activities>>
       ELSE LET expense == CreatedExpense(paidBy, amount, "manual")
            IN  /\ expenses' = Append(expenses, expense)
                /\ IF splitType = "equal"
                   THEN /\ splits' = Append(splits, EqualSplits(amount))
                        /\ activities' = Append(activities, [expenseId |-> expense.id])
                        /\ error' = ""
                   ELSE IF Abs(TotalCustom(customSplits) - amount) > Tolerance
                   THEN /\ splits' = Append(splits, <<>>)
                        /\ error' = "Split amounts must equal total expense"
                        /\ UNCHANGED activities
                   ELSE /\ splits' = Append(splits, CustomSplits(customSplits))
                        /\ activities' = Append(activities, [expenseId |-> expense.id])
                        /\ error' = ""
    /\ UNCHANGED <<extVars, members, user, receipts, groupVars, userBalances, builder, planVars, pc>>

\* NLPExpenseForm.handleSubmit.  The expenses table rejects an amount that is
\* not positive and a paid_by that is not a user id; the insert then throws
\* and the handler only records the error.
NLPSubmit(payer, amount) ==
    /\ Len(expenses) < MaxSubmitted
    /\ IF amount <= 0 \/ payer = ParsedPayerName
       THEN /\ error' = "Failed to add expense"
            /\ UNCHANGED <<expenses, splits, activities>>
       ELSE LET expense == CreatedExpense(payer, amount, "nlp")
            IN  /\ expenses' = Append(expenses, expense)
                /\ splits' = Append(splits, EqualSplits(amount))
                /\ activities' = Append(activities, [expenseId |-> expense.id])
                /\ error' = ""
    /\ UNCHANGED <<extVars, members, user, receipts, groupVars, userBalances, builder, planVars, pc>>

\* ReceiptUploadForm.handleSubmit
ReceiptSubmit(amount) ==
    /\ Len(expenses) < MaxSubmitted
    /\ receipts' = Append(receipts, [expenseId |-> "temp", userId |-> user])
    /\ LET expense == CreatedExpense(user, amount, "receipt")
       IN  /\ expenses' = Append(expenses, expense)
           /\ splits' = Append(splits, EqualSplits(amount))
           /\ activities' = Append(activities, [expenseId |-> expense.id])
    /\ error' = ""
    /\ UNCHANGED <<extVars, members, user, groupVars, userBalances, builder, planVars, pc>>

\* ------------------------------------------------------------------------
\* expenseService.getGroupBalances
\* ------------------------------------------------------------------------
\* Map.get(key) || 0 on the "from:to" map, kept as a list in insertion order.
MapGet(map, from, to) ==
    IF \E i \in 1..Len(map) : map[i].from = from /\ map[i].to = to
    THEN LET i == CHOOSE j \in 1..Len(map) : map[j].from = from /\ map[j].to = to
         IN  map[i].amount
    ELSE 0

\* Map.set(key, value): an existing key keeps its place, a new one goes last.
MapSet(map, from, to, value) ==
    IF \E i \in 1..Len(map) : map[i].from = from /\ map[i].to = to
    THEN [i \in 1..Len(map) |->
            IF map[i].from = from /\ map[i].to = to
            THEN [map[i] EXCEPT !.amount = value] ELSE map[i]]
    ELSE Append(map, [from |-> from, to |-> to, amount |-> value])

\* Variant of the loop body that only accumulates, as the user_balances view
\* does: the reverse direction is never looked at.
NetSplitNoNetting(map, split, paidBy) ==
    IF split.user_id = paidBy THEN map
    ELSE MapSet(map, split.user_id, paidBy,
                MapGet(map, split.user_id, paidBy) + split.share_amount)

\* Variant of the loop body without the "Skip self" test.
NetSplitOwnShareCounted(map, split, paidBy) ==
    LET currentOwed == MapGet(map, split.user_id, paidBy)
        currentOwedReverse == MapGet(map, paidBy, split.user_id)
        netAmount == split.share_amount
    IN  IF currentOwedReverse > 0
        THEN IF currentOwedReverse >= netAmount
             THEN MapSet(map, paidBy, split.user_id, currentOwedReverse - netAmount)
             ELSE MapSet(MapSet(map, paidBy, split.user_id, 0),
                         split.user_id, paidBy,
                         currentOwed + (netAmount - currentOwedReverse))
        ELSE MapSet(map, split.user_id, paidBy, currentOwed + netAmount)

\* The body of the inner loop for one split of an expense paid by paidBy.
NetSplit(map, split, paidBy) ==
    IF split.user_id = paidBy THEN map
    ELSE LET currentOwed == MapGet(map, split.user_id, paidBy)
             currentOwedReverse == MapGet(map, paidBy, split.user_id)
             netAmount == split.share_amount
         IN  IF currentOwedReverse > 0
             THEN IF currentOwedReverse >= netAmount
                  THEN MapSet(map, paidBy, split.user_id, currentOwedReverse - netAmount)
                  ELSE MapSet(MapSet(map, paidBy, split.user_id, 0),
                              split.user_id, paidBy,
                              currentOwed + (netAmount - currentOwedReverse))
             ELSE MapSet(map, split.user_id, paidBy, currentOwed + netAmount)

RECURSIVE NetSplits(_, _, _)
NetSplits(map, ss, paidBy) ==
    IF ss = <<>> THEN map
    ELSE NetSplits(NetSplit(map, Head(ss), paidBy), Tail(ss), paidBy)

\* The outer loop over the expenses returned by getGroupExpenses, which
\* orders them by created_at descending: the newest expense comes first.
RECURSIVE NetExpenses(_, _)
NetExpenses(map, k) ==
    IF k = 0 THEN map
    ELSE NetExpenses(NetSplits(map, splits[k], expenses[k].paid_by), k - 1)

BalanceMap == NetExpenses(<<>>, Len(expenses))

\* balanceMap.forEach: the rows above 0.01, rounded to two decimals.
RECURSIVE BalanceRows(_)
BalanceRows(map) ==
    IF map = <<>> THEN <<>>
    ELSE IF Head(map).amount > Tolerance
         THEN <<[from_user |-> Head(map).from, to_user |-> Head(map).to,
                 owes |-> Round2(Head(map).amount)]>> \o BalanceRows(Tail(map))
         ELSE BalanceRows(Tail(map))

getGroupBalances == BalanceRows(BalanceMap)

\* ------------------------------------------------------------------------
\* simplifyBalances
\* ------------------------------------------------------------------------
\* balanceMap.has / set / get on the per-user map, in insertion order.
UserIndex(map, u) == FindIndex(map, u)

InitUser(map, u) ==
    IF UserIndex(map, u) # 0 THEN map ELSE Append(map, [user_id |-> u, amount |-> 0])

AddAmount(map, u, delta) == [map EXCEPT ![UserIndex(map, u)].amount = @ + delta]

\* Variant of the row body that credits to_user without debiting from_user.
AggregateRowCreditOnly(map, row) ==
    LET withUsers == InitUser(InitUser(map, row.from_user), row.to_user)
    IN  AddAmount(withUsers, row.to_user, row.owes)

\* The body of userBalances.forEach for one row.
AggregateRow(map, row) ==
    LET withUsers == InitUser(InitUser(map, row.from_user), row.to_user)
    IN  AddAmount(AddAmount(withUsers, row.from_user, -row.owes), row.to_user, row.owes)

RECURSIVE AggregateRows(_, _)
AggregateRows(map, rows) ==
    IF rows = <<>> THEN map
    ELSE AggregateRows(AggregateRow(map, Head(rows)), Tail(rows))

simplifyBalances(rows) ==
    LET map == AggregateRows(<<>>, rows)
    IN  [i \in 1..Len(map) |->
            [user_id |-> map[i].user_id, net_amount |-> Round2(map[i].amount)]]

\* The pipeline getGroupBalances -> simplifyBalances, whose result is handed
\* to calculateMinCashFlow.
LoadBalances ==
    /\ pc = "idle"
    /\ userBalances' = getGroupBalances
    /\ balances' = simplifyBalances(getGroupBalances)
    /\ pc' = "start"
    /\ UNCHANGED <<extVars, storeVars, builder, nonZeroBalances, transactions, iterations>>

MemberSet == { members[i] : i \in 1..Len(members) }

InitForms ==
    /\ \E n \in 1..MaxGroup : members = SubSeq(UserOrder, 1, n)
    /\ user \in MemberSet
    /\ expenses = <<>>
    /\ splits = <<>>
    /\ receipts = <<>>
    /\ activities = <<>>
    /\ error = ""
    /\ groups = <<>>
    /\ groupMembers = {}
    /\ created = [status |-> "none", id |-> 0]
    /\ InitExt
    /\ userBalances = <<>>
    /\ builder = BuilderIdle
    /\ balances = <<>>
    /\ nonZeroBalances = <<>>
    /\ transactions = <<>>
    /\ iterations = 0
    /\ pc = "idle"

NextForms ==
    \/ \E paidBy \in MemberSet, amount \in AmountInputs, splitType \in {"equal", "custom"},
          customSplits \in [MemberSet -> CustomShareInputs] :
          ManualSubmit(paidBy, amount, splitType, customSplits)
    \/ \E payer \in {user, ParsedPayerName}, amount \in AmountInputs : NLPSubmit(payer, amount)
    \/ \E amount \in ReceiptAmounts : ReceiptSubmit(amount)

SpecForms == InitForms /\ [][NextForms]_vars

\* Stored expenses handed to the balance computation: each is paid by a
\* member and has either no split (its submission stopped at the validation)
\* or one split per member; its amount is the one a custom split of these
\* shares is accepted for.
ShareValues == { c * Cent : c \in 0..MaxShare }

StoredSplitChoices(n) ==
    {<<>>} \cup { [i \in 1..n |-> [user_id |-> UserOrder[i], share_amount |-> f[i]]] :
                    f \in [1..n -> ShareValues] }

AcceptedAmount(ss) == IF SumShares(ss) > 0 THEN SumShares(ss) ELSE Cent

InitLedger ==
    /\ \E n \in 1..MaxLedgerGroup :
         /\ members = SubSeq(UserOrder, 1, n)
         /\ \E k \in 0..MaxExpenses :
              \E payers \in [1..k -> { UserOrder[i] : i \in 1..n }],
                 stored \in [1..k -> StoredSplitChoices(n)] :
                   /\ expenses = [i \in 1..k |->
                                    [id |-> i, paid_by |-> payers[i],
                                     amount |-> AcceptedAmount(stored[i]),
                                     input_method |-> "manual"]]
                   /\ splits = [i \in 1..k |-> stored[i]]
    /\ user = members[1]
    /\ receipts = <<>>
    /\ activities = <<>>
    /\ error = ""
    /\ groups = <<>>
    /\ groupMembers = {}
    /\ created = [status |-> "none", id |-> 0]
    /\ InitExt
    /\ userBalances = <<>>
    /\ builder = BuilderIdle
    /\ balances = <<>>
    /\ nonZeroBalances = <<>>
    /\ transactions = <<>>
    /\ iterations = 0
    /\ pc = "idle"

NextLedger == LoadBalances

SpecLedger == InitLedger /\ [][NextLedger]_vars

\* ------------------------------------------------------------------------
\* Properties of the planner
\* ------------------------------------------------------------------------
\* Sum of the amounts of the transactions in which user u is the payer.
RECURSIVE Paid(_, _)
Paid(u, txs) ==
    IF txs = <<>> THEN 0
    ELSE (IF Head(txs).from = u THEN Head(txs).amount ELSE 0) + Paid(u, Tail(txs))

\* Sum of the amounts of the transactions in which user u is the receiver.
RECURSIVE Received(_, _)
Received(u, txs) ==
    IF txs = <<>> THEN 0
    ELSE (IF Head(txs).to = u THEN Head(txs).amount ELSE 0) + Received(u, Tail(txs))

\* Balance of entry i after every returned transaction has been applied:
\* the amount is added to the payer and subtracted from the receiver.
AppliedBalance(i) ==
    balances[i].net_amount + Paid(balances[i].user_id, transactions)
                           - Received(balances[i].user_id, transactions)

\* Number of input entries whose |net_amount| exceeds 0.01.
NonZeroCount == Cardinality({ i \in 1..Len(balances) : Abs(balances[i].net_amount) > Tolerance })

\* Fewest transfers that bring every entry of the integer list s to exactly
\* zero: the first open entry is cleared against each entry of the opposite
\* sign in turn (an optimal plan of that shape always exists).
RECURSIVE MinTransfers(_)
MinTransfers(s) ==
    IF s = <<>> THEN 0
    ELSE IF Head(s) = 0 THEN MinTransfers(Tail(s))
    ELSE LET x == Head(s)
             rest == Tail(s)
             opp == { j \in 1..Len(rest) : rest[j] * x < 0 }
             cost(j) == 1 + MinTransfers([rest EXCEPT ![j] = @ + x])
         IN  IF opp = {} THEN Len(s)
             ELSE LET best == CHOOSE j \in opp : \A k \in opp : cost(j) <= cost(k)
                  IN  cost(best)

\* C1: for a zero-sum list of balances with distinct user_ids, applying every
\* returned transaction leaves every member's balance within 0.01 of zero.
C1_SettlementCorrect ==
    (pc = "done" /\ NetTotal(balances) = 0) =>
        \A i \in 1..Len(balances) : Abs(AppliedBalance(i)) <= Tolerance

\* C2: for a zero-sum list of balances the returned plan has the minimum
\* number of transactions: no plan that settles every balance is shorter.
C2_MinimalPlan ==
    (pc = "done" /\ NetTotal(balances) = 0) =>
        Len(transactions) <= MinTransfers([i \in 1..Len(balances) |-> balances[i].net_amount])

\* C3: the plan has at most (number of members with |net_amount| > 0.01) - 1
\* transactions, and is empty when no member exceeds the tolerance.
C3_CountBound ==
    pc # "start" =>
        IF NonZeroCount = 0 THEN Len(transactions) = 0
        ELSE Len(transactions) <= NonZeroCount - 1

C3_Witness == pc = "done" /\ NonZeroCount >= 3 /\ Len(transactions) = NonZeroCount - 1

\* C5: with distinct user_ids no returned transaction has from equal to to.
C5_NoSelfDebt ==
    \A k \in 1..Len(transactions) : transactions[k].from # transactions[k].to

C5_Witness == pc = "done" /\ Len(transactions) >= 2

\* C7: every pass of the loop body that does not break removes at least one
\* entry from the active array, and the loop body is entered at most n - 1
\* times for n entries with |net_amount| > 0.01.
C7_LoopShrinks ==
    [][/\ (pc = "loop" /\ transactions' # transactions) =>
             Len(nonZeroBalances') < Len(nonZeroBalances)
       /\ iterations' <= (IF NonZeroCount = 0 THEN 0 ELSE NonZeroCount - 1)]_vars

C7_Witness == pc = "done" /\ NonZeroCount >= 3 /\ iterations = NonZeroCount - 1

\* ------------------------------------------------------------------------
\* Properties of the builder and the netter
\* ------------------------------------------------------------------------
\* Shares of the other members on the expenses u paid, minus the shares of u
\* on the expenses the others paid.
ShareOf(k, u) ==
    SumSeq([i \in 1..Len(splits[k]) |->
              IF splits[k][i].user_id = u THEN splits[k][i].share_amount ELSE 0])

DirectNet(u) ==
    SumSeq([k \in 1..Len(expenses) |->
              IF expenses[k].paid_by = u
              THEN SumShares(splits[k]) - ShareOf(k, u)
              ELSE -ShareOf(k, u)])

\* net_amount of u in the simplified balances, 0 when u has no entry.
PipelineNet(u) ==
    SumSeq([i \in 1..Len(balances) |->
              IF balances[i].user_id = u THEN balances[i].net_amount ELSE 0])

\* C4: the net balances that simplifyBalances computes from the rows of
\* getGroupBalances sum to zero (stored shares are non-negative).
C4_Conservation == pc = "start" => NetTotal(balances) = 0

C4_Witness == pc = "start" /\ Len(userBalances) >= 1 /\ Len(balances) >= 2 /\ Len(expenses) >= 2

\* C6: each member's net_amount after getGroupBalances and simplifyBalances
\* equals the direct signed accumulation of the shares.
C6_DirectAccumulation ==
    pc = "start" => \A u \in MemberSet : PipelineNet(u) = DirectNet(u)

\* ------------------------------------------------------------------------
\* Properties of the expense forms
\* ------------------------------------------------------------------------
\* C9: every expense stored by a completed submission has stored splits whose
\* share_amounts sum to the expense amount within 0.01.
C9_SplitsSumToAmount ==
    \A a \in 1..Len(activities) :
        LET id == activities[a].expenseId
        IN  Abs(SumShares(splits[id]) - expenses[id].amount) <= Tolerance

\* C10: the shares stored by an equal split sum exactly to the expense amount.
C10_EqualSplitExact ==
    [][(/\ Len(expenses') = Len(expenses) + 1
        /\ \/ \E paidBy \in MemberSet, amount \in AmountInputs :
                ManualSubmit(paidBy, amount, "equal", [m \in MemberSet |-> 0])
           \/ \E payer \in {user, ParsedPayerName}, amount \in AmountInputs :
                NLPSubmit(payer, amount)
           \/ \E amount \in ReceiptAmounts : ReceiptSubmit(amount))
       => SumShares(splits'[Len(expenses')]) = expenses'[Len(expenses')].amount]_vars

\* C11: a manual custom-split submission whose shares do not sum to the
\* expense total within 0.01 reports the validation failure and stores
\* neither the expense nor any split.
C11_ValidationLeavesStore ==
    [][error' = "Split amounts must equal total expense"
          => (expenses' = expenses /\ splits' = splits)]_vars

\* ------------------------------------------------------------------------
\* GroupDetail: the Balances tab
\* ------------------------------------------------------------------------
\* members.forEach(m => { if (m.user_id !== currentUserId) userBalances.set(m.user_id, 0) })
RECURSIVE InitOthers(_, _, _)
InitOthers(map, ms, currentUserId) ==
    IF ms = <<>> THEN map
    ELSE InitOthers(IF Head(ms) # currentUserId THEN InitUser(map, Head(ms)) ELSE map,
                    Tail(ms), currentUserId)

\* The body of rawBalances.forEach for one row.
DetailRow(map, balance, currentUserId) ==
    IF balance.from_user = currentUserId
    THEN AddAmount(InitUser(map, balance.to_user), balance.to_user, balance.owes)
    ELSE IF balance.to_user = currentUserId
    THEN AddAmount(InitUser(map, balance.from_user), balance.from_user, -balance.owes)
    ELSE map

RECURSIVE DetailRows(_, _, _)
DetailRows(map, rows, currentUserId) ==
    IF rows = <<>> THEN map
    ELSE DetailRows(DetailRow(map, Head(rows), currentUserId), Tail(rows), currentUserId)

calculateSimplifiedBalances(rawBalances, ms, currentUserId) ==
    LET map == DetailRows(InitOthers(<<>>, ms, currentUserId), rawBalances, currentUserId)
    IN  FilterNonZero([i \in 1..Len(map) |->
            [user_id |-> map[i].user_id, net_amount |-> map[i].amount]])

\* GroupDetail.loadGroupData: the rows of getGroupBalances are turned into the
\* balances state that the Balances tab renders.
LoadGroupData ==
    /\ pc = "idle"
    /\ userBalances' = getGroupBalances
    /\ balances' = calculateSimplifiedBalances(getGroupBalances, members, user)
    /\ pc' = "shown"
    /\ UNCHANGED <<extVars, storeVars, builder, nonZeroBalances, transactions, iterations>>

NextDetail == LoadGroupData

SpecDetail == InitLedger /\ [][NextDetail]_vars

\* What m owes to u once their mutual shares are netted.
NettedDebt(m, u) ==
    LET owed == SumSeq([k \in 1..Len(expenses) |->
                    IF expenses[k].paid_by = u THEN ShareOf(k, m) ELSE 0])
        back == SumSeq([k \in 1..Len(expenses) |->
                    IF expenses[k].paid_by = m THEN ShareOf(k, u) ELSE 0])
    IN  IF owed > back THEN owed - back ELSE 0

\* C12: on the Balances tab a member M is listed with net_amount > 0 ('owes
\* you') exactly when M's netted debt to the current user is positive, and
\* with net_amount < 0 ('you owe') exactly when the current user's netted
\* debt to M is positive.
C12_DisplayOrientation ==
    pc = "shown" =>
        \A m \in MemberSet \ {user} :
            /\ (\E i \in 1..Len(balances) :
                    balances[i].user_id = m /\ balances[i].net_amount > 0)
                 <=> NettedDebt(m, user) > 0
            /\ (\E i \in 1..Len(balances) :
                    balances[i].user_id = m /\ balances[i].net_amount < 0)
                 <=> NettedDebt(user, m) > 0

\* ------------------------------------------------------------------------
\* The settlement engine: calculateMinCashFlow called on any list, or on the
\* result of getGroupBalances -> simplifyBalances over a stored ledger
\* ------------------------------------------------------------------------
MaxPipelineGroup == 3      \* most members of such a ledger's group
MaxPipelineRupees == 300   \* largest amount of its expense, in whole rupees

PipelineAmounts == { r * 100 * Cent : r \in 1..MaxPipelineRupees }

\* The planner is handed a list or nothing; or a group's ledger holds at most
\* one expense, split equally as the forms store it, and is about to be read.
InitEngine ==
    /\ \/ /\ members = <<>>
          /\ expenses = <<>>
          /\ splits = <<>>
          /\ \/ \E n \in 0..MaxBalances : balances \in BalanceLists(n, (-MaxNet)..MaxNet)
             \/ balances = Undefined
          /\ pc = "start"
       \/ /\ \E n \in 1..MaxPipelineGroup : members = SubSeq(UserOrder, 1, n)
          /\ \/ /\ expenses = <<>>
                /\ splits = <<>>
             \/ \E paidBy \in MemberSet, amount \in PipelineAmounts :
                   /\ expenses = <<[id |-> 1, paid_by |-> paidBy, amount |-> amount,
                                    input_method |-> "manual"]>>
                   /\ splits = <<EqualSplits(amount)>>
          /\ balances = <<>>
          /\ pc = "idle"
    /\ user = UserOrder[1]
    /\ receipts = <<>>
    /\ activities = <<>>
    /\ error = ""
    /\ groups = <<>>
    /\ groupMembers = {}
    /\ created = [status |-> "none", id |-> 0]
    /\ InitExt
    /\ userBalances = <<>>
    /\ builder = BuilderIdle
    /\ nonZeroBalances = <<>>
    /\ transactions = <<>>
    /\ iterations = 0

NextEngine == LoadBalances \/ CalcStart \/ CalcIterate \/ CalcBreak \/ CalcReturn

SpecEngine == InitEngine /\ [][NextEngine]_vars

\* The ledger of the scenario: one expense of 300 paid by A in the group
\* A, B, C, with splits A:100, B:100, C:100.
Rupees(r) == r * 100 * Cent

ThreeWayScenario ==
    /\ members = <<"A", "B", "C">>
    /\ Len(expenses) = 1
    /\ expenses[1].paid_by = "A"
    /\ expenses[1].amount = Rupees(300)
    /\ splits[1] = <<[user_id |-> "A", share_amount |-> Rupees(100)],
                     [user_id |-> "B", share_amount |-> Rupees(100)],
                     [user_id |-> "C", share_amount |-> Rupees(100)]>>

\* C13: for a single expense of 300 paid by A with splits A:100, B:100, C:100
\* the pipeline yields net balances A:+200, B:-100, C:-100 and the plan
\* [B pays A 100, C pays A 100], in that order.
C13_ThreeWaySplit ==
    (pc = "done" /\ ThreeWayScenario) =>
        /\ Len(balances) = 3
        /\ PipelineNet("A") = Rupees(200)
        /\ PipelineNet("B") = -Rupees(100)
        /\ PipelineNet("C") = -Rupees(100)
        /\ transactions = <<[from |-> "B", to |-> "A", amount |-> Rupees(100)],
                            [from |-> "C", to |-> "A", amount |-> Rupees(100)]>>

C13_Witness == pc = "done" /\ ThreeWayScenario /\ Len(transactions) = 2

\* C14: calculateMinCashFlow returns an empty plan without failing when the
\* balance list is missing or empty, holds a single member, or has every
\* |net_amount| <= 0.01; getGroupBalances and simplifyBalances return empty
\* outputs for an empty expense list.
C14_DegenerateInputs ==
    /\ pc # "threw"
    /\ (/\ pc = "done"
        /\ \/ balances = Undefined
           \/ Len(balances) <= 1
           \/ \A i \in 1..Len(balances) : Abs(balances[i].net_amount) <= Tolerance)
         => transactions = <<>>
    /\ (pc \notin {"idle", "threw"} /\ members # <<>> /\ expenses = <<>>)
         => (userBalances = <<>> /\ balances = <<>>)

C14_Witness == pc = "done" /\ balances = Undefined /\ transactions = <<>>

\* ------------------------------------------------------------------------
\* groupService.createGroup
\* ------------------------------------------------------------------------
MaxCreators == 2   \* users who create groups
MaxGroups == 4     \* most groups stored

\* A group document / row; store names the database that holds it.
NewGroup(createdBy, store) ==
    [id |-> Len(groups) + 1, created_by |-> createdBy, store |-> store]

Membership(groupId, userId) == [group_id |-> groupId, user_id |-> userId]

\* The Firestore implementation: the group document and the creator's member
\* document are set in one runTransaction, which commits both or throws.
CreateGroupFirestore(createdBy, committed) ==
    /\ Len(groups) < MaxGroups
    /\ IF committed
       THEN /\ groups' = Append(groups, NewGroup(createdBy, "firestore"))
            /\ groupMembers' = groupMembers \cup
                                  {Membership(NewGroup(createdBy, "firestore").id, createdBy)}
            /\ created' = [status |-> "returned", id |-> NewGroup(createdBy, "firestore").id]
       ELSE /\ created' = [status |-> "thrown", id |-> 0]
            /\ UNCHANGED <<groups, groupMembers>>
    /\ UNCHANGED <<extVars, members, user, expenses, splits, receipts, activities, error,
                   userBalances, builder, planVars, pc>>

\* The Supabase implementation (the typed service is the same code): the
\* insert into groups throws on an error; the result of the insert into
\* group_members is not looked at.
CreateGroupSupabase(createdBy, groupInserted, memberInserted) ==
    /\ Len(groups) < MaxGroups
    /\ IF groupInserted
       THEN /\ groups' = Append(groups, NewGroup(createdBy, "supabase"))
            /\ groupMembers' = IF memberInserted
                               THEN groupMembers \cup
                                       {Membership(NewGroup(createdBy, "supabase").id, createdBy)}
                               ELSE groupMembers
            /\ created' = [status |-> "returned", id |-> NewGroup(createdBy, "supabase").id]
       ELSE /\ created' = [status |-> "thrown", id |-> 0]
            /\ UNCHANGED <<groups, groupMembers>>
    /\ UNCHANGED <<extVars, members, user, expenses, splits, receipts, activities, error,
                   userBalances, builder, planVars, pc>>

InitGroups ==
    /\ members = <<>>
    /\ user \in { UserOrder[i] : i \in 1..MaxCreators }
    /\ expenses = <<>>
    /\ splits = <<>>
    /\ receipts = <<>>
    /\ activities = <<>>
    /\ error = ""
    /\ groups = <<>>
    /\ groupMembers = {}
    /\ created = [status |-> "none", id |-> 0]
    /\ InitExt
    /\ userBalances = <<>>
    /\ builder = BuilderIdle
    /\ balances = <<>>
    /\ nonZeroBalances = <<>>
    /\ transactions = <<>>
    /\ iterations = 0
    /\ pc = "idle"

\* CreateGroup.handleSubmit calls createGroup(name, user.id).
NextGroups ==
    \/ \E committed \in BOOLEAN : CreateGroupFirestore(user, committed)
    \/ \E groupInserted \in BOOLEAN, memberInserted \in BOOLEAN :
          CreateGroupSupabase(user, groupInserted, memberInserted)

SpecGroups == InitGroups /\ [][NextGroups]_vars

\* C15: whenever createGroup returns successfully the creator is a member of
\* the new group, and when it fails no group exists without its creator
\* membership, in the Firestore and in the Supabase implementation.
C15_CreateGroupAtomic ==
    /\ created.status = "returned" => Membership(created.id, user) \in groupMembers
    /\ \A g \in 1..Len(groups) :
          Membership(groups[g].id, groups[g].created_by) \in groupMembers

\* ------------------------------------------------------------------------
\* getGroupBalances, split by split
\* ------------------------------------------------------------------------
MaxBuilderGroup == 2     \* most members of the group
MaxBuilderExpenses == 2  \* most expenses read
MaxBuilderShare == 2     \* largest stored share, in multiples of 0.01

BuilderShares == { c * Cent : c \in 0..MaxBuilderShare }

\* Sum of the shares each member owes each other member, kept directly
\* beside the map (not a value of the code).
NothingOwed == [a \in MemberSet, b \in MemberSet |-> 0]

Accumulate(owed, split, paidBy) ==
    IF split.user_id = paidBy THEN owed
    ELSE [owed EXCEPT ![split.user_id, paidBy] = @ + split.share_amount]

\* The inner loop is not inside an expense.
BetweenExpenses == builder.next = 0 \/ builder.next > Len(members)

\* for (const expense of expenses): the next expense is paid by paidBy and has
\* one split document per member (their ids are the user ids, read in id
\* order) or, when its submission stopped at the validation, none.
ReadExpense(paidBy, hasSplits) ==
    /\ pc = "netting"
    /\ BetweenExpenses
    /\ builder.read < MaxBuilderExpenses
    /\ builder' = [builder EXCEPT !.paid_by = paidBy,
                                  !.next = IF hasSplits THEN 1 ELSE 0,
                                  !.read = @ + 1]
    /\ UNCHANGED <<extVars, storeVars, userBalances, planVars, pc>>

\* for (const split of expense.splits): the body for the next split.
NetStoredSplit(share) ==
    /\ pc = "netting"
    /\ ~BetweenExpenses
    /\ LET split == [user_id |-> members[builder.next], share_amount |-> share]
       IN  builder' = [builder EXCEPT
                          !.balanceMap = NetSplit(@, split, builder.paid_by),
                          !.owed = Accumulate(@, split, builder.paid_by),
                          !.next = @ + 1]
    /\ UNCHANGED <<extVars, storeVars, userBalances, planVars, pc>>

\* The loops are over: the map is converted to the rows and returned.
ReturnRows ==
    /\ pc = "netting"
    /\ BetweenExpenses
    /\ userBalances' = BalanceRows(builder.balanceMap)
    /\ pc' = "rows"
    /\ UNCHANGED <<extVars, storeVars, builder, planVars>>

InitBuilder ==
    /\ \E n \in 1..MaxBuilderGroup : members = SubSeq(UserOrder, 1, n)
    /\ user = members[1]
    /\ expenses = <<>>
    /\ splits = <<>>
    /\ receipts = <<>>
    /\ activities = <<>>
    /\ error = ""
    /\ groups = <<>>
    /\ groupMembers = {}
    /\ created = [status |-> "none", id |-> 0]
    /\ InitExt
    /\ userBalances = <<>>
    /\ builder = [balanceMap |-> <<>>, owed |-> NothingOwed, paid_by |-> "",
                  next |-> 0, read |-> 0]
    /\ balances = <<>>
    /\ nonZeroBalances = <<>>
    /\ transactions = <<>>
    /\ iterations = 0
    /\ pc = "netting"

NextBuilder ==
    \/ \E paidBy \in MemberSet, hasSplits \in BOOLEAN : ReadExpense(paidBy, hasSplits)
    \/ \E share \in BuilderShares : NetStoredSplit(share)
    \/ ReturnRows

SpecBuilder == InitBuilder /\ [][NextBuilder]_vars

\* The statement for every pair of distinct members; it reads the same for
\* (a, b) and (b, a), so each pair is taken once.
PairwiseNetted(map, owed) ==
    \A i \in 1..Len(members) : \A j \in (i + 1)..Len(members) :
        LET ab == MapGet(map, members[i], members[j])
            ba == MapGet(map, members[j], members[i])
        IN  /\ ab >= 0
            /\ ba >= 0
            /\ ~(ab > 0 /\ ba > 0)
            /\ ab - ba = owed[members[i], members[j]] - owed[members[j], members[i]]

C17_OwnSplitDropped ==
    [][/\ (/\ \E share \in BuilderShares : NetStoredSplit(share)
           /\ members[builder.next] = builder.paid_by)
             => builder'.balanceMap = builder.balanceMap
       /\ \A i \in 1..Len(userBalances') :
             userBalances'[i].from_user # userBalances'[i].to_user]_vars

\* The payer had a share of their own on an expense that produced a row.
C17_Witness ==
    /\ pc = "rows"
    /\ Len(userBalances) >= 1
    /\ builder.read >= 1

\* ------------------------------------------------------------------------
\* simplifyBalances on the rows getGroupBalances can return
\* ------------------------------------------------------------------------
MaxRowUsers == 3   \* users named by the rows
MaxRows == 2       \* most rows
MaxOwesCents == 3  \* largest owes of a row, in multiples of 0.01

RowUsers == { UserOrder[i] : i \in 1..MaxRowUsers }

\* A returned row has an amount above 0.01, rounded to two decimals.
RowAmounts == { c * Cent : c \in 1..MaxOwesCents } \ {Tolerance}

\* Lists of rows: a pair of members has one row at most, in one direction.
RowLists(n) ==
    { rows \in [1..n -> [from_user : RowUsers, to_user : RowUsers, owes : RowAmounts]] :
        /\ \A i \in 1..n : rows[i].from_user # rows[i].to_user
        /\ \A i \in 1..n : \A j \in (i + 1)..n :
              {rows[i].from_user, rows[i].to_user} # {rows[j].from_user, rows[j].to_user} }

\* simplifyBalances(userBalances)
SimplifyRows ==
    /\ pc = "rows"
    /\ balances' = simplifyBalances(userBalances)
    /\ pc' = "start"
    /\ UNCHANGED <<extVars, storeVars, userBalances, builder, nonZeroBalances, transactions, iterations>>

InitNetter ==
    /\ \E n \in 0..MaxRows : userBalances \in RowLists(n)
    /\ members = <<>>
    /\ user = UserOrder[1]
    /\ expenses = <<>>
    /\ splits = <<>>
    /\ receipts = <<>>
    /\ activities = <<>>
    /\ error = ""
    /\ groups = <<>>
    /\ groupMembers = {}
    /\ created = [status |-> "none", id |-> 0]
    /\ InitExt
    /\ builder = BuilderIdle
    /\ balances = <<>>
    /\ nonZeroBalances = <<>>
    /\ transactions = <<>>
    /\ iterations = 0
    /\ pc = "rows"

NextNetter == SimplifyRows

SpecNetter == InitNetter /\ [][NextNetter]_vars

\* C18: the output of simplifyBalances contains no member whose |net_amount|
\* is below the rounding tolerance; a member whose obligations cancel out does
\* not appear in the result.
C18_NearZeroDropped ==
    pc = "start" =>
        \A i \in 1..Len(balances) : Abs(balances[i].net_amount) >= Tolerance

\* ------------------------------------------------------------------------
\* Properties of the selection in calculateMinCashFlow
\* ------------------------------------------------------------------------
\* The first position of s that holds the value v.
FirstHolding(s, v) ==
    CHOOSE i \in 1..Len(s) :
        s[i].net_amount = v /\ \A j \in 1..(i - 1) : s[j].net_amount # v

MaxBalance(s) ==
    CHOOSE v \in { s[i].net_amount : i \in 1..Len(s) } :
        \A i \in 1..Len(s) : s[i].net_amount <= v

MinBalance(s) ==
    CHOOSE v \in { s[i].net_amount : i \in 1..Len(s) } :
        \A i \in 1..Len(s) : s[i].net_amount >= v

\* C19: in every iteration the selected creditor is the first entry, in the
\* current list order, that holds the maximum balance, and the selected debtor
\* is the first entry that holds the minimum balance.
C19_TieBreak ==
    [][(pc = "loop" /\ Len(nonZeroBalances) > 1) =>
          /\ MaxCreditorIndex(nonZeroBalances)
                = FirstHolding(nonZeroBalances, MaxBalance(nonZeroBalances))
          /\ MaxDebtorIndex(nonZeroBalances)
                = FirstHolding(nonZeroBalances, MinBalance(nonZeroBalances))
          /\ transactions' # transactions =>
                /\ transactions'[Len(transactions')].to
                      = nonZeroBalances[FirstHolding(nonZeroBalances,
                                            MaxBalance(nonZeroBalances))].user_id
                /\ transactions'[Len(transactions')].from
                      = nonZeroBalances[FirstHolding(nonZeroBalances,
                                            MinBalance(nonZeroBalances))].user_id]_vars

\* Two creditors tied for the maximum, and the plan starts with the first.
C19_Witness ==
    /\ pc = "done"
    /\ Len(balances) = 3
    /\ balances[1].net_amount = balances[2].net_amount
    /\ balances[1].net_amount > Tolerance
    /\ Len(transactions) >= 1
    /\ transactions[1].to = balances[1].user_id

\* C20: for every list of balances that sums to zero, whenever more than one
\* entry remains active the selected creditor's balance is > 0.01 and the
\* selected debtor's balance is < -0.01, so the loop never exits through the
\* break.
C20_BreakUnreachable ==
    (pc = "loop" /\ NetTotal(balances) = 0 /\ Len(nonZeroBalances) > 1) =>
        /\ nonZeroBalances[MaxCreditorIndex(nonZeroBalances)].net_amount > Tolerance
        /\ nonZeroBalances[MaxDebtorIndex(nonZeroBalances)].net_amount < -Tolerance

\* ------------------------------------------------------------------------
\* Further properties of the expense forms
\* ------------------------------------------------------------------------
\* C21: no stored split has a negative share_amount; a manual custom-split
\* submission that contains a negative share while its shares sum to the
\* expense total is reported as a validation failure and nothing is stored.
\* (A submission whose shares do not sum to the total is the case of C11.)
C21_NegativeShareRejected ==
    [][/\ \A k \in 1..Len(splits') : \A i \in 1..Len(splits'[k]) :
             splits'[k][i].share_amount >= 0
       /\ \A paidBy \in MemberSet, amount \in AmountInputs,
             customSplits \in [MemberSet -> CustomShareInputs] :
             (/\ \E m \in MemberSet : customSplits[m] < 0
              /\ Abs(TotalCustom(customSplits) - amount) <= Tolerance
              /\ ManualSubmit(paidBy, amount, "custom", customSplits))
                => (error' # "" /\ expenses' = expenses /\ splits' = splits)]_vars

\* ------------------------------------------------------------------------
\* The caller's array
\* ------------------------------------------------------------------------
\* C22: calculateMinCashFlow leaves the balances array of the caller as it
\* was: same entries, same order, same net_amount values.
C22_InputNotMutated == [][balances' = balances]_vars

\* A call whose loop updated and removed entries has returned.
C22_Witness == pc = "done" /\ Len(transactions) >= 2 /\ Len(nonZeroBalances) = 0

\* ------------------------------------------------------------------------
\* validateCashFlow
\* ------------------------------------------------------------------------
MaxCheckedBalances == 2

MaxCheckedNet == 3

MaxPlanLength == 1

MaxPaid == 3

\* validateCashFlow(originalBalances, transactions): both totals are below
\* 0.01 in absolute value; each transaction adds amount - amount.
validateCashFlow(originalBalances, txs) ==
    LET originalTotal == NetTotal(originalBalances)
        transactionTotal == SumSeq([i \in 1..Len(txs) |-> txs[i].amount - txs[i].amount])
    IN  Abs(originalTotal) < Cent /\ Abs(transactionTotal) < Cent

\* The call of validateCashFlow on the balances and a list of transactions.
ValidateCashFlow ==
    /\ pc = "done"
    /\ valid' = validateCashFlow(balances, transactions)
    /\ pc' = "validated"
    /\ UNCHANGED <<origin, db, tasks, auth, storeVars, userBalances, builder, planVars>>

\* Transaction lists between the users of a balance list.
PlanLists(bs) ==
    LET ids == { bs[i].user_id : i \in 1..Len(bs) }
        txs == { [from |-> f, to |-> t, amount |-> c * Cent] :
                   f \in ids, t \in ids, c \in 1..MaxPaid }
    IN  UNION { [1..n -> { x \in txs : x.from # x.to }] : n \in 0..MaxPlanLength }

InitValidator ==
    /\ \E n \in 0..MaxCheckedBalances :
          balances \in BalanceLists(n, { c * Cent : c \in (-MaxCheckedNet)..MaxCheckedNet })
    /\ transactions \in PlanLists(balances)
    /\ members = <<>>
    /\ user = UserOrder[1]
    /\ expenses = <<>>
    /\ splits = <<>>
    /\ receipts = <<>>
    /\ activities = <<>>
    /\ error = ""
    /\ groups = <<>>
    /\ groupMembers = {}
    /\ created = [status |-> "none", id |-> 0]
    /\ InitExt
    /\ userBalances = <<>>
    /\ builder = BuilderIdle
    /\ nonZeroBalances = <<>>
    /\ iterations = 0
    /\ pc = "done"

NextValidator == ValidateCashFlow

SpecValidator == InitValidator /\ [][NextValidator]_vars

\* Every entry of the original balances is within 0.01 of zero once the
\* transactions have been applied to it.
SettledByPlan ==
    \A i \in 1..Len(balances) : Abs(AppliedBalance(i)) <= Tolerance

\* C23: validateCashFlow returns true only when the transactions settle the
\* original balances: the total is preserved and every balance is driven to
\* zero within 0.01.
C23_ValidatorDetectsWrongPlans ==
    (pc = "validated" /\ valid) => (Abs(NetTotal(balances)) < Cent /\ SettledByPlan)

\* ------------------------------------------------------------------------
\* Overshoot and removal
\* ------------------------------------------------------------------------
\* The net_amount the caller passed for user u (user_ids are distinct).
InputBalance(u) == balances[FindIndex(balances, u)].net_amount

\* No active entry has passed zero: it has the sign the caller passed.
C29_SignsKept ==
    \A i \in 1..Len(nonZeroBalances) :
        LET input == InputBalance(nonZeroBalances[i].user_id)
        IN  /\ input > 0 => nonZeroBalances[i].net_amount >= 0
            /\ input < 0 => nonZeroBalances[i].net_amount <= 0

\* Every payer had a negative input balance and every receiver a positive one.
C29_PayersOweReceiversAreOwed ==
    \A k \in 1..Len(transactions) :
        /\ InputBalance(transactions[k].from) < 0
        /\ InputBalance(transactions[k].to) > 0

\* Nobody pays more than the debt passed in or receives more than the credit.
C29_TotalsBounded ==
    \A i \in 1..Len(balances) :
        LET u == balances[i].user_id
        IN  /\ Paid(u, transactions) <= (IF balances[i].net_amount < 0 THEN -balances[i].net_amount ELSE 0)
            /\ Received(u, transactions) <= (IF balances[i].net_amount > 0 THEN balances[i].net_amount ELSE 0)

\* Every input net_amount is a whole multiple of 0.01.
WholeCents == \A i \in 1..Len(balances) : balances[i].net_amount % Cent = 0

\* Number of transactions of the plan that user u pays or receives.
Transfers(u) ==
    Cardinality({ k \in 1..Len(transactions) :
                    transactions[k].from = u \/ transactions[k].to = u })

\* Nobody pays or receives more than was passed in, up to the rounding of
\* each recorded amount (at most 0.005 per transaction).
C29_TotalsBoundedUpToRounding ==
    \A i \in 1..Len(balances) :
        LET u == balances[i].user_id
        IN  /\ 2 * Paid(u, transactions) <=
                 2 * (IF balances[i].net_amount < 0 THEN -balances[i].net_amount ELSE 0)
                   + Cent * Transfers(u)
            /\ 2 * Received(u, transactions) <=
                 2 * (IF balances[i].net_amount > 0 THEN balances[i].net_amount ELSE 0)
                   + Cent * Transfers(u)

MaxRepeatedBalances == 3

MaxRepeatedUsers == 2

MaxRepeatedNet == 4

\* Balance lists of n entries over a set of users, a user_id possibly in
\* several entries.
RepeatedLists(n) ==
    { [i \in 1..n |-> [user_id |-> UserOrder[u[i]], net_amount |-> f[i]]] :
        u \in [1..n -> 1..MaxRepeatedUsers],
        f \in [1..n -> (-MaxRepeatedNet)..MaxRepeatedNet] }

InitRepeated ==
    /\ \E n \in 0..MaxRepeatedBalances : balances \in RepeatedLists(n)
    /\ members = <<>>
    /\ user = UserOrder[1]
    /\ expenses = <<>>
    /\ splits = <<>>
    /\ receipts = <<>>
    /\ activities = <<>>
    /\ error = ""
    /\ groups = <<>>
    /\ groupMembers = {}
    /\ created = [status |-> "none", id |-> 0]
    /\ InitExt
    /\ userBalances = <<>>
    /\ builder = BuilderIdle
    /\ nonZeroBalances = <<>>
    /\ transactions = <<>>
    /\ iterations = 0
    /\ pc = "start"

SpecRepeated == InitRepeated /\ [][NextPlanner]_vars

\* The indexes of nz that hold the selected creditor or the selected debtor
\* with an updated |balance| of at most 0.01.
SettledSelected(nz) ==
    LET upd == UpdateBalances(nz)
    IN  { i \in {MaxCreditorIndex(nz), MaxDebtorIndex(nz)} :
            Abs(upd[i].net_amount) <= Tolerance }

\* The entries of s at the indexes outside drop, in order.
RECURSIVE Without(_, _, _)
Without(s, drop, i) ==
    IF i > Len(s) THEN <<>>
    ELSE (IF i \in drop THEN <<>> ELSE <<s[i]>>) \o Without(s, drop, i + 1)

\* C30: after a settlement step the entries removed from the active set are
\* exactly the selected creditor and/or debtor whose updated |balance| is at
\* most 0.01, also when a user_id occurs in more than one entry.
C30_RemovalExact ==
    [][CalcIterate =>
         nonZeroBalances' = Without(UpdateBalances(nonZeroBalances),
                                    SettledSelected(nonZeroBalances), 1)]_vars

\* ------------------------------------------------------------------------
\* Receipts
\* ------------------------------------------------------------------------
\* receiptService.getReceiptsByExpense: the receipts whose expense_id is the
\* document id of the expense.
getReceiptsByExpense(expenseId) ==
    SelectSeq(receipts, LAMBDA r : r.expenseId = ToString(expenseId))

\* C28: once ReceiptUploadForm.handleSubmit has finished, every stored
\* receipt's expenseId is the id of a stored expense, and
\* getReceiptsByExpense of an expense entered from a receipt returns its
\* receipt.
C28_ReceiptsLinked ==
    /\ \A i \in 1..Len(receipts) :
          \E k \in 1..Len(expenses) : receipts[i].expenseId = ToString(expenses[k].id)
    /\ \A k \in 1..Len(expenses) :
          expenses[k].input_method = "receipt"
             => getReceiptsByExpense(expenses[k].id) # <<>>

\* ------------------------------------------------------------------------
\* The Firestore documents of one group under concurrent service calls
\* ------------------------------------------------------------------------
MaxStoreUsers == 2       \* members of the group when the calls start

MaxStoreExpenses == 2    \* expenses submitted in all

StoreUsers == { UserOrder[i] : i \in 1..MaxStoreUsers }

\* The user that addMember adds.
NewMember == UserOrder[MaxStoreUsers + 1]

\* The share of every split document written by a submission.
StoredShare == Rupees(1)

nonStoreVars == <<origin, valid, auth, storeVars, userBalances, builder, planVars, pc>>

\* orderBy('created_at', 'desc'): the expense documents, newest first.
RECURSIVE NewestFirst(_)
NewestFirst(docs) ==
    IF docs = {} THEN <<>>
    ELSE LET newest == CHOOSE e \in docs : \A f \in docs : f.id <= e.id
         IN  <<newest>> \o NewestFirst(docs \ {newest})

\* Place of a document id in the order of the document ids.
IdOrder(userId) == CHOOSE i \in 1..Len(UserOrder) : UserOrder[i] = userId

\* getDocs(collection(db, 'expenses', id, 'splits')): the split documents
\* of one expense, in the order of their document ids (the user_ids).
RECURSIVE InIdOrder(_)
InIdOrder(docs) ==
    IF docs = {} THEN <<>>
    ELSE LET first == CHOOSE d \in docs :
                         \A f \in docs : IdOrder(d.user_id) <= IdOrder(f.user_id)
         IN  <<[user_id |-> first.user_id, share_amount |-> first.share_amount]>>
                \o InIdOrder(docs \ {first})

SplitsOf(docs, expenseId) == InIdOrder({ d \in docs : d.expense_id = expenseId })

\* The loops of getGroupBalances over the expenses returned to it.
RECURSIVE NetRead(_, _)
NetRead(map, es) ==
    IF es = <<>> THEN map
    ELSE NetRead(NetSplits(map, Head(es).splits, Head(es).paid_by), Tail(es))

RowSet(rows) == { rows[i] : i \in 1..Len(rows) }

\* The rows getGroupBalances computes from expenses with their splits.
RowsOfRead(es) == RowSet(BalanceRows(NetRead(<<>>, es)))

\* The expenses with their splits as they are stored at one instant.
RECURSIVE Joined(_, _)
Joined(es, docs) ==
    IF es = <<>> THEN <<>>
    ELSE <<[id |-> Head(es).id, paid_by |-> Head(es).paid_by,
            splits |-> SplitsOf(docs, Head(es).id)]>> \o Joined(Tail(es), docs)

SnapshotRows(d) == RowsOfRead(Joined(NewestFirst(d.expenses), d.splitDocs))

\* No call is in progress.
TasksIdle ==
    [nextId |-> 1,
     submit |-> [pc |-> "none", id |-> 0, paid_by |-> ""],
     reader |-> [pc |-> "idle", todo |-> <<>>, read |-> <<>>, rows |-> {},
                 snapshots |-> {}],
     remover |-> [pc |-> "idle", id |-> 0, seen |-> {}],
     purge |-> [pc |-> "idle", members |-> {}, expenses |-> {}, splitDocs |-> {},
                todo |-> <<>>]]

\* History of the stored data while getGroupBalances is in progress: the
\* rows of every instant from its query to its return.
Observed(t, d) ==
    IF t.reader.pc = "listed"
    THEN [t EXCEPT !.reader.snapshots = @ \cup {SnapshotRows(d)}]
    ELSE t

\* expenseService.createExpense: addDoc of the expense document.
CreateExpense(paidBy) ==
    /\ tasks.submit.pc \in {"none", "done", "failed"}
    /\ tasks.nextId <= MaxStoreExpenses
    /\ tasks.purge.pc # "done"
    /\ db' = [db EXCEPT !.expenses = @ \cup {[id |-> tasks.nextId, paid_by |-> paidBy]}]
    /\ tasks' = Observed([tasks EXCEPT !.nextId = @ + 1,
                                       !.submit = [pc |-> "created", id |-> tasks.nextId,
                                                   paid_by |-> paidBy]], db')
    /\ UNCHANGED nonStoreVars

\* expenseService.createSplits: the batch commits every split document or
\* the call throws and none is written.
CreateSplits(committed) ==
    /\ tasks.submit.pc = "created"
    /\ IF committed
       THEN /\ db' = [db EXCEPT !.splitDocs = @ \cup
                        { [expense_id |-> tasks.submit.id, user_id |-> u,
                           share_amount |-> StoredShare] : u \in StoreUsers }]
            /\ tasks' = Observed([tasks EXCEPT !.submit.pc = "done"], db')
       ELSE /\ tasks' = [tasks EXCEPT !.submit.pc = "failed"]
            /\ UNCHANGED db
    /\ UNCHANGED nonStoreVars

\* getGroupExpenses: the query for the expenses of the group.
GetGroupExpensesQuery ==
    /\ tasks.reader.pc = "idle"
    /\ tasks' = [tasks EXCEPT !.reader = [pc |-> "listed",
                                          todo |-> NewestFirst(db.expenses),
                                          read |-> <<>>, rows |-> {},
                                          snapshots |-> {SnapshotRows(db)}]]
    /\ UNCHANGED <<db, nonStoreVars>>

\* getGroupExpenses: one pass of the loop, which reads the splits of the
\* next expense of the query result.
GetGroupExpensesSplits ==
    /\ tasks.reader.pc = "listed"
    /\ tasks.reader.todo # <<>>
    /\ LET e == Head(tasks.reader.todo)
       IN  tasks' = [tasks EXCEPT
                       !.reader.todo = Tail(@),
                       !.reader.read = Append(@, [id |-> e.id, paid_by |-> e.paid_by,
                                                  splits |-> SplitsOf(db.splitDocs, e.id)])]
    /\ UNCHANGED <<db, nonStoreVars>>

\* getGroupBalances: the rest of the call, from the expenses returned.
GetGroupBalancesReturn ==
    /\ tasks.reader.pc = "listed"
    /\ tasks.reader.todo = <<>>
    /\ tasks' = [tasks EXCEPT !.reader.pc = "returned",
                              !.reader.rows = RowsOfRead(tasks.reader.read)]
    /\ UNCHANGED <<db, nonStoreVars>>

\* expenseService.deleteExpense: the read of the splits.
DeleteExpenseRead(expenseId) ==
    /\ tasks.remover.pc = "idle"
    /\ \E e \in db.expenses : e.id = expenseId
    /\ tasks' = [tasks EXCEPT !.remover = [pc |-> "read", id |-> expenseId,
                                           seen |-> { d \in db.splitDocs :
                                                        d.expense_id = expenseId }]]
    /\ UNCHANGED <<db, nonStoreVars>>

\* expenseService.deleteExpense: the commit of the batch.
DeleteExpenseCommit ==
    /\ tasks.remover.pc = "read"
    /\ db' = [db EXCEPT !.splitDocs = @ \ tasks.remover.seen,
                        !.expenses = { e \in @ : e.id # tasks.remover.id }]
    /\ tasks' = Observed([tasks EXCEPT !.remover = TasksIdle.remover], db')
    /\ UNCHANGED nonStoreVars

\* groupService.deleteGroup: the read of the member documents.
DeleteGroupMembers ==
    /\ tasks.purge.pc = "idle"
    /\ tasks' = [tasks EXCEPT !.purge.pc = "members", !.purge.members = db.members]
    /\ UNCHANGED <<db, nonStoreVars>>

\* groupService.deleteGroup: the query for the expenses of the group.
DeleteGroupExpenses ==
    /\ tasks.purge.pc = "members"
    /\ tasks' = [tasks EXCEPT !.purge.pc = "expenses",
                              !.purge.todo = NewestFirst(db.expenses)]
    /\ UNCHANGED <<db, nonStoreVars>>

\* groupService.deleteGroup: one pass of the loop over the expenses.
DeleteGroupSplits ==
    /\ tasks.purge.pc = "expenses"
    /\ tasks.purge.todo # <<>>
    /\ LET e == Head(tasks.purge.todo)
       IN  tasks' = [tasks EXCEPT
                       !.purge.todo = Tail(@),
                       !.purge.expenses = @ \cup {e.id},
                       !.purge.splitDocs = @ \cup { d \in db.splitDocs :
                                                      d.expense_id = e.id }]
    /\ UNCHANGED <<db, nonStoreVars>>

\* groupService.deleteGroup: the commit of the batch.
DeleteGroupCommit ==
    /\ tasks.purge.pc = "expenses"
    /\ tasks.purge.todo = <<>>
    /\ db' = [group |-> FALSE,
              members |-> db.members \ tasks.purge.members,
              expenses |-> { e \in db.expenses : e.id \notin tasks.purge.expenses },
              splitDocs |-> db.splitDocs \ tasks.purge.splitDocs]
    /\ tasks' = Observed([tasks EXCEPT !.purge.pc = "done"], db')
    /\ UNCHANGED nonStoreVars

\* groupService.addMember: setDoc of the member document.
AddMember(userId) ==
    /\ tasks.purge.pc # "done"
    /\ userId \notin db.members
    /\ db' = [db EXCEPT !.members = @ \cup {userId}]
    /\ tasks' = tasks
    /\ UNCHANGED nonStoreVars

InitStore ==
    /\ db = [members |-> StoreUsers, expenses |-> {}, splitDocs |-> {}, group |-> TRUE]
    /\ tasks = TasksIdle
    /\ origin = <<>>
    /\ valid = FALSE
    /\ auth = NoAuth
    /\ members = <<>>
    /\ user = UserOrder[1]
    /\ expenses = <<>>
    /\ splits = <<>>
    /\ receipts = <<>>
    /\ activities = <<>>
    /\ error = ""
    /\ groups = <<>>
    /\ groupMembers = {}
    /\ created = [status |-> "none", id |-> 0]
    /\ userBalances = <<>>
    /\ builder = BuilderIdle
    /\ balances = <<>>
    /\ nonZeroBalances = <<>>
    /\ transactions = <<>>
    /\ iterations = 0
    /\ pc = "idle"

NextStore ==
    \/ \E paidBy \in StoreUsers : CreateExpense(paidBy)
    \/ \E committed \in BOOLEAN : CreateSplits(committed)
    \/ GetGroupExpensesQuery
    \/ GetGroupExpensesSplits
    \/ GetGroupBalancesReturn
    \/ \E expenseId \in 1..MaxStoreExpenses : DeleteExpenseRead(expenseId)
    \/ DeleteExpenseCommit
    \/ DeleteGroupMembers
    \/ DeleteGroupExpenses
    \/ DeleteGroupSplits
    \/ DeleteGroupCommit
    \/ AddMember(NewMember)

SpecStore == InitStore /\ [][NextStore]_vars

\* C24: getGroupExpenses and getGroupBalances never observe a stored expense
\* that has no splits, whatever the interleaving with a submission
\* (createExpense followed by createSplits) and also after createSplits failed.
C24_ExpenseWithSplits ==
    [][(/\ GetGroupExpensesSplits
        /\ Head(tasks.reader.todo) \in db.expenses)
          => tasks'.reader.read[Len(tasks'.reader.read)].splits # <<>>]_vars

\* C25: the rows returned by getGroupBalances are the rows of the expenses
\* and splits as they were stored at one single instant during the call.
C25_ConsistentSnapshot ==
    tasks.reader.pc = "returned" => tasks.reader.rows \in tasks.reader.snapshots

\* C26: when deleteGroup completes, no member document, expense or split of
\* the group remains stored, also when createExpense, createSplits or
\* addMember ran concurrently with it.
C26_CascadeComplete ==
    [][DeleteGroupCommit =>
         (db'.members = {} /\ db'.expenses = {} /\ db'.splitDocs = {})]_vars

\* ------------------------------------------------------------------------
\* AuthContext: signUp and the onAuthStateChanged handler
\* ------------------------------------------------------------------------
MaxNames == 6

NameOrder == <<"Asha", "Bina", "Chitra", "Dev", "Esha", "Farah", "Gita", "Hema">>

SuppliedNames == { NameOrder[i] : i \in 1..MaxNames }

\* firebaseUser.displayName || 'User': an account made with e-mail and
\* password has no displayName.
FallbackName == "User"

nonAuthVars == <<origin, valid, db, tasks, storeVars, userBalances, builder, planVars, pc>>

\* signUp: createUserWithEmailAndPassword has resolved; the change of the
\* auth state calls the handler.
CreateAccount(name) ==
    /\ auth.signUp = "none"
    /\ auth' = [auth EXCEPT !.signUp = "authed", !.name = name, !.handler = "called"]
    /\ UNCHANGED nonAuthVars

\* signUp: userService.createUser(email, name, uid), a setDoc of the profile.
SignUpCreateUser(written) ==
    /\ auth.signUp = "authed"
    /\ auth' = IF written
               THEN [auth EXCEPT !.signUp = "done", !.profile = auth.name]
               ELSE [auth EXCEPT !.signUp = "failed"]
    /\ UNCHANGED nonAuthVars

\* Handler: userService.getUserById(uid); a rejected read goes to the catch
\* block, which sets a user made from the auth data.
HandlerGetUserById(fetched) ==
    /\ auth.handler = "called"
    /\ auth' = IF ~fetched
               THEN [auth EXCEPT !.handler = "finished", !.user = FallbackName,
                                 !.rejected = TRUE]
               ELSE IF auth.profile = "none"
               THEN [auth EXCEPT !.handler = "missing"]
               ELSE [auth EXCEPT !.handler = "found", !.dbUser = auth.profile]
    /\ UNCHANGED nonAuthVars

\* Handler: the profile was not found and is created with the fallback name.
HandlerCreateUser(written) ==
    /\ auth.handler = "missing"
    /\ auth' = IF written
               THEN [auth EXCEPT !.handler = "found", !.profile = FallbackName,
                                 !.dbUser = FallbackName]
               ELSE [auth EXCEPT !.handler = "finished", !.user = FallbackName,
                                 !.rejected = TRUE]
    /\ UNCHANGED nonAuthVars

\* Handler: setUser(dbUser); setLoading(false).
HandlerSetUser ==
    /\ auth.handler = "found"
    /\ auth' = [auth EXCEPT !.handler = "finished", !.user = auth.dbUser]
    /\ UNCHANGED nonAuthVars

\* Nobody is signed in and no profile is stored; rejected records that a
\* read or write of the handler failed.
SignedOut ==
    [signUp |-> "none", handler |-> "idle", name |-> "", profile |-> "none",
     dbUser |-> "none", user |-> "none", rejected |-> FALSE]

InitAuth ==
    /\ auth = SignedOut
    /\ origin = <<>>
    /\ valid = FALSE
    /\ db = NoStore
    /\ tasks = [submit |-> "none"]
    /\ members = <<>>
    /\ user = UserOrder[1]
    /\ expenses = <<>>
    /\ splits = <<>>
    /\ receipts = <<>>
    /\ activities = <<>>
    /\ error = ""
    /\ groups = <<>>
    /\ groupMembers = {}
    /\ created = [status |-> "none", id |-> 0]
    /\ userBalances = <<>>
    /\ builder = BuilderIdle
    /\ balances = <<>>
    /\ nonZeroBalances = <<>>
    /\ transactions = <<>>
    /\ iterations = 0
    /\ pc = "idle"

NextAuth ==
    \/ \E name \in SuppliedNames : CreateAccount(name)
    \/ \E written \in BOOLEAN : SignUpCreateUser(written)
    \/ \E fetched \in BOOLEAN : HandlerGetUserById(fetched)
    \/ \E written \in BOOLEAN : HandlerCreateUser(written)
    \/ HandlerSetUser

SpecAuth == InitAuth /\ [][NextAuth]_vars

\* C27: once signUp has succeeded and the handler it triggered has finished
\* (no read or write of the handler was rejected), the stored profile and
\* the user of the AuthContext carry the supplied name, whatever the
\* interleaving of the two.
C27_SignUpKeepsName ==
    (auth.signUp = "done" /\ auth.handler = "finished" /\ ~auth.rejected)
        => (auth.profile = auth.name /\ auth.user = auth.name)

====
